---- MODULE Spec2Model ----
(***************************************************************************)
(* The preprocessing workflow of notebooks/example_preprocessing.ipynb:    *)
(* the node graph wired by coregwf.connect and preproc.connect, its        *)
(* expansion over the iterables (subject_id x task_name on infosource,     *)
(* fwhm on smooth), its execution by preproc.run('MultiProc', n_procs=8),  *)
(* and the DataSink substitution list applied to every stored path.        *)
(***************************************************************************)
EXTENDS Integers, Sequences, FiniteSets, TLC

VARIABLES
    active,     \* the subject ids the run iterates over
    running,    \* node instances submitted to a worker and not yet finished
    finished,   \* node instances that have finished successfully
    runs,       \* how many times each node instance has been submitted
    sink,       \* the paths the datasink instances have written
    out,        \* substitution loop: the output file being stored
    dst,        \* substitution loop: the destination path so far
    step        \* substitution loop: number of rules already applied

vars == <<active, running, finished, runs, sink, out, dst, step>>

(***************************************************************************)
(* Experiment parameters                                                   *)
(***************************************************************************)
experiment_dir == "/output"
output_dir == "datasink"
subject_list == <<"01", "02", "03", "04", "05", "06", "07", "08", "09", "10">>
task_list == <<"fingerfootlips">>
fwhm == <<4, 8>>
n_procs == 8

\* Number of leading entries of subject_list a modelled run iterates over.
NumSubjects == 1

Range(seq) == {seq[i] : i \in 1..Len(seq)}

(***************************************************************************)
(* Nodes and connections                                                   *)
(***************************************************************************)
MainNodes == {"infosource", "selectfiles", "extract", "mcflirt", "slicetimer",
              "smooth", "art", "datasink"}

CoregNodes == {"bet_anat", "segmentation", "threshold", "coreg_pre",
               "coreg_bbr", "applywarp", "applywarp_mean"}

\* coregwf.connect with the anatomical reference fed back from applywarp.
coregwf_connect_cyclic ==
    { <<"bet_anat", "segmentation">>,
      <<"segmentation", "threshold">>,
      <<"bet_anat", "coreg_pre">>,
      <<"threshold", "coreg_bbr">>,
      <<"coreg_pre", "coreg_bbr">>,
      <<"coreg_bbr", "applywarp">>,
      <<"bet_anat", "applywarp">>,
      <<"coreg_bbr", "applywarp_mean">>,
      <<"bet_anat", "applywarp_mean">>,
      <<"applywarp", "bet_anat">> }

\* One entry per (source node, destination node) pair of coregwf.connect.
coregwf_connect ==
    { <<"bet_anat", "segmentation">>,
      <<"segmentation", "threshold">>,
      <<"bet_anat", "coreg_pre">>,
      <<"threshold", "coreg_bbr">>,
      <<"coreg_pre", "coreg_bbr">>,
      <<"coreg_bbr", "applywarp">>,
      <<"bet_anat", "applywarp">>,
      <<"coreg_bbr", "applywarp_mean">>,
      <<"bet_anat", "applywarp_mean">> }

\* One entry per connected field of preproc.connect.  A field of the nested
\* workflow is written 'node.field'; here it is kept as the node it names.
Conn(s, sn, d, dn, key) == [src |-> s, srcnode |-> sn, dst |-> d, dstnode |-> dn, key |-> key]

preproc_connect ==
    { Conn("infosource", "", "selectfiles", "", ""),
      Conn("selectfiles", "", "extract", "", ""),
      Conn("extract", "", "mcflirt", "", ""),
      Conn("mcflirt", "", "slicetimer", "", ""),
      Conn("selectfiles", "", "coregwf", "bet_anat", ""),
      Conn("selectfiles", "", "coregwf", "coreg_bbr", ""),
      Conn("mcflirt", "", "coregwf", "coreg_pre", ""),
      Conn("mcflirt", "", "coregwf", "coreg_bbr", ""),
      Conn("mcflirt", "", "coregwf", "applywarp_mean", ""),
      Conn("slicetimer", "", "coregwf", "applywarp", ""),
      Conn("coregwf", "applywarp", "smooth", "", ""),
      Conn("mcflirt", "", "datasink", "", "par"),
      Conn("smooth", "", "datasink", "", "smooth"),
      Conn("coregwf", "applywarp_mean", "datasink", "", "mean"),
      Conn("coregwf", "applywarp", "art", "", ""),
      Conn("mcflirt", "", "art", "", ""),
      Conn("coregwf", "coreg_bbr", "datasink", "", "mat_file"),
      Conn("coregwf", "bet_anat", "datasink", "", "brain"),
      Conn("art", "", "datasink", "", "outlier_files"),
      Conn("art", "", "datasink", "", "plot_files") }

\* A flattening that loses the connections crossing into or out of coregwf.
FlatEdges_noboundary ==
    coregwf_connect \cup
    { <<c.src, c.dst>> : c \in {x \in preproc_connect : x.src # "coregwf" /\ x.dst # "coregwf"} }

\* The flat graph the run executes: the nested workflow's nodes take the place
\* of 'coregwf', and the connections of both workflows become its edges.
FlatEdges ==
    coregwf_connect \cup
    { << IF c.src = "coregwf" THEN c.srcnode ELSE c.src,
         IF c.dst = "coregwf" THEN c.dstnode ELSE c.dst >> : c \in preproc_connect }

FlatNodes == MainNodes \cup CoregNodes

Preds(n) == {e[1] : e \in {x \in FlatEdges : x[2] = n}}

RECURSIVE ReachFrom(_, _)
ReachFrom(front, seen) ==
    LET next == {e[2] : e \in {x \in FlatEdges : x[1] \in front}} \ seen
    IN  IF next = {} THEN seen ELSE ReachFrom(next, seen \cup next)

\* The nodes downstream of n (n excluded unless it lies on a cycle).
Descendants(n) == ReachFrom({n}, {})

(***************************************************************************)
(* Iterables and graph expansion                                           *)
(***************************************************************************)
NoFwhm == 0

\* smooth.iterables = ("fwhm", fwhm): smooth and everything downstream of it
\* exist once per smoothing width.
SmoothIterated == {"smooth"} \cup Descendants("smooth")

Inst(n, s, t, f) == [name |-> n, subject_id |-> s, task_name |-> t, fwhm |-> f]

\* infosource.iterables over subject_id and task_name, smooth.iterables over
\* fwhm; the identity node infosource itself is not an executed job.
Expand(subjects) ==
    { Inst(n, s, t, NoFwhm) :
        n \in (FlatNodes \ SmoothIterated) \ {"infosource"},
        s \in subjects, t \in Range(task_list) }
    \cup
    { Inst(n, s, t, f) :
        n \in SmoothIterated, s \in subjects, t \in Range(task_list),
        f \in Range(fwhm) }

\* The instances i waits for: those of its predecessor nodes with the same
\* subject and task, and the same width where the predecessor has one.
Deps(i, all) ==
    { j \in all :
        /\ j.name \in Preds(i.name)
        /\ j.subject_id = i.subject_id
        /\ j.task_name = i.task_name
        /\ j.fwhm \in {NoFwhm, i.fwhm} }

AllInstances == Expand(Range(subject_list))

DepTable == [i \in AllInstances |-> Deps(i, AllInstances)]

\* The node instances of the run at hand.
Instances == {i \in AllInstances : i.subject_id \in active}

(***************************************************************************)
(* File names along the node chain                                         *)
(***************************************************************************)
\* func_file template of SelectFiles, without directory and extension.
FuncBase(s, t) == "sub-" \o s \o "_ses-test_task-" \o t \o "_bold"

\* anat_file template of SelectFiles, without directory and extension.
AnatBase(s) == "sub-" \o s \o "_t1w_preproc"

\* extract (ExtractROI, NIFTI): roi_file
RoiBase(s, t) == FuncBase(s, t) \o "_roi"

\* mcflirt (MCFLIRT, NIFTI, mean_vol, save_plots): out_file, par_file, mean_img
McfBase(s, t) == RoiBase(s, t) \o "_mcf"
McfFile(s, t) == McfBase(s, t) \o ".nii"
ParFile(s, t) == McfFile(s, t) \o ".par"
MeanBase(s, t) == McfFile(s, t) \o "_mean_reg"

\* slicetimer (SliceTimer, NIFTI): slice_time_corrected_file
StBase(s, t) == McfBase(s, t) \o "_st"

\* coregwf.bet_anat (BET, NIFTI_GZ): out_file
BrainFile(s) == AnatBase(s) \o "_brain" \o ".nii.gz"

\* coregwf.coreg_bbr (FLIRT on mean_img): out_matrix_file
MatFile(s, t) == MeanBase(s, t) \o "_flirt" \o ".mat"

\* coregwf.applywarp (FLIRT on the slice-time corrected file, NIFTI): out_file
WarpBase(s, t) == StBase(s, t) \o "_flirt"
WarpFile(s, t) == WarpBase(s, t) \o ".nii"

\* coregwf.applywarp_mean (FLIRT on mean_img, NIFTI_GZ): out_file
WarpMeanFile(s, t) == MeanBase(s, t) \o "_flirt" \o ".nii.gz"

\* smooth (SPM Smooth): smoothed_files
SmoothedFile(s, t) == "s" \o WarpFile(s, t)

\* art (ArtifactDetect on applywarp.out_file, plot_type svg)
OutlierFile(s, t) == "art." \o WarpBase(s, t) \o "_outliers.txt"
PlotFile(s, t) == "plot." \o WarpBase(s, t) \o ".svg"

\* The file a datasink input receives through its connection.
WiredFile(key, s, t) ==
    CASE key = "par" -> ParFile(s, t)
      [] key = "smooth" -> SmoothedFile(s, t)
      [] key = "mean" -> WarpMeanFile(s, t)
      [] key = "mat_file" -> MatFile(s, t)
      [] key = "brain" -> BrainFile(s)
      [] key = "outlier_files" -> OutlierFile(s, t)
      [] key = "plot_files" -> PlotFile(s, t)

(***************************************************************************)
(* DataSink: destination paths and substitutions                           *)
(***************************************************************************)
\* Working-directory folder of one iterable combination of infosource.
SubjectDir(s, t) == "_subject_id_" \o s \o "_task_name_" \o t

\* Working-directory folder of one value of smooth.iterables.
FwhmDir(f) == "_fwhm_" \o ToString(f)

\* DataSink(base_directory=experiment_dir, container=output_dir) with input
\* 'preproc.@<key>': the file goes to <base>/<container>/preproc/ followed by
\* the parameterisation folders of the node that produced it.
Destination(key, s, t, f) ==
    experiment_dir \o "/" \o output_dir \o "/preproc/" \o SubjectDir(s, t) \o "/"
    \o (IF f = NoFwhm THEN "" ELSE FwhmDir(f) \o "/")
    \o WiredFile(key, s, t)

subjFolders ==
    [i \in 1..Len(fwhm) |->
        << "fwhm-" \o ToString(fwhm[i]) \o "/", "fwhm-" \o ToString(fwhm[i]) \o "_" >>]

\* The list without substitutions.extend(subjFolders).
substitutions_noextend ==
    << <<"_subject_id_", "sub-">>,
       <<"_task_name_", "/task-">>,
       <<"_fwhm_", "fwhm-">>,
       <<"_roi", "">>,
       <<"_mcf", "">>,
       <<"_st", "">>,
       <<"_flirt", "">>,
       <<".nii_mean_reg", "_mean">>,
       <<".nii.par", ".par">> >>

\* The list with subjFolders placed in front instead of appended.
substitutions_extendfirst == subjFolders \o substitutions_noextend

\* The list with the slice-timing rule written 'st' instead of '_st'.
substitutions_typo ==
    << <<"_subject_id_", "sub-">>,
       <<"_task_name_", "/task-">>,
       <<"_fwhm_", "fwhm-">>,
       <<"_roi", "">>,
       <<"_mcf", "">>,
       <<"st", "">>,
       <<"_flirt", "">>,
       <<".nii_mean_reg", "_mean">>,
       <<".nii.par", ".par">> >> \o subjFolders

substitutions ==
    << <<"_subject_id_", "sub-">>,
       <<"_task_name_", "/task-">>,
       <<"_fwhm_", "fwhm-">>,
       <<"_roi", "">>,
       <<"_mcf", "">>,
       <<"_st", "">>,
       <<"_flirt", "">>,
       <<".nii_mean_reg", "_mean">>,
       <<".nii.par", ".par">> >> \o subjFolders

\* The positions at which old occurs in str.
Occurrences(str, old) ==
    {k \in 1..(Len(str) - Len(old) + 1) : SubSeq(str, k, k + Len(old) - 1) = old}

Contains(str, old) == Occurrences(str, old) # {}

\* str.replace(old, new): every non-overlapping occurrence, left to right.
RECURSIVE Replace(_, _, _)
Replace(str, old, new) ==
    LET occ == Occurrences(str, old)
    IN  IF occ = {} THEN str
        ELSE LET k == CHOOSE a \in occ : \A b \in occ : a <= b
             IN  SubSeq(str, 1, k - 1) \o new
                     \o Replace(SubSeq(str, k + Len(old), Len(str)), old, new)

\* The first n rules of the list applied in list order.
RECURSIVE SubstituteUpTo(_, _)
SubstituteUpTo(path, n) ==
    IF n = 0 THEN path
    ELSE Replace(SubstituteUpTo(path, n - 1), substitutions[n][1], substitutions[n][2])

Substitute(path) == SubstituteUpTo(path, Len(substitutions))

\* A file handed to a datasink instance: the input key and the parameters of
\* the node instance that produced it.
OutRec(key, s, t, f) == [key |-> key, subject_id |-> s, task_name |-> t, fwhm |-> f]

\* The datasink inputs without the connection of art.plot_files.
Wired_noplot(i) ==
    { OutRec(c.key, i.subject_id, i.task_name,
             IF c.src \in SmoothIterated THEN i.fwhm ELSE NoFwhm) :
        c \in {x \in preproc_connect : x.dst = "datasink" /\ x.key # "plot_files"} }

\* The files wired into the datasink instance i.
Wired(i) ==
    { OutRec(c.key, i.subject_id, i.task_name,
             IF c.src \in SmoothIterated THEN i.fwhm ELSE NoFwhm) :
        c \in {x \in preproc_connect : x.dst = "datasink"} }

AllOutputs == UNION {Wired(i) : i \in {j \in AllInstances : j.name = "datasink"}}

StoredPath == [o \in AllOutputs |->
                 Substitute(Destination(o.key, o.subject_id, o.task_name, o.fwhm))]

(***************************************************************************)
(* Execution: preproc.run('MultiProc', plugin_args={'n_procs': 8})         *)
(***************************************************************************)
\* The processors of the pool requested with n_procs that hold no job.
free_processors(busy) == n_procs - Cardinality(busy)

\* Submission that does not wait for the jobs a job depends on.
CanSubmit_nodeps(i) ==
    /\ i.subject_id \in active
    /\ i \notin running \cup finished
    /\ free_processors(running) >= 1

\* Submission that forgets which jobs are already done.
CanSubmit_resubmit(i) ==
    /\ i.subject_id \in active
    /\ i \notin running
    /\ free_processors(running) >= 1
    /\ DepTable[i] \subseteq finished

\* A job may be submitted once, when all the jobs it depends on are done and
\* a processor is free.
CanSubmit(i) ==
    /\ i.subject_id \in active
    /\ i \notin running \cup finished
    /\ free_processors(running) >= 1
    /\ DepTable[i] \subseteq finished

Submit(i) ==
    /\ CanSubmit(i)
    /\ running' = running \cup {i}
    /\ runs' = [runs EXCEPT ![i] = @ + 1]
    /\ UNCHANGED <<active, finished, sink, out, dst, step>>

\* A running job finishes; a datasink job has then copied its inputs to
\* their substituted destinations.
Finish(i) ==
    /\ i \in running
    /\ running' = running \ {i}
    /\ finished' = finished \cup {i}
    /\ sink' = IF i.name = "datasink"
               THEN sink \cup {StoredPath[o] : o \in Wired(i)}
               ELSE sink
    /\ UNCHANGED <<active, runs, out, dst, step>>

\* One iteration of the substitution loop of the datasink.
SubstituteStep ==
    /\ step < Len(substitutions)
    /\ dst' = Replace(dst, substitutions[step + 1][1], substitutions[step + 1][2])
    /\ step' = step + 1
    /\ UNCHANGED <<active, running, finished, runs, sink, out>>

NoOut == OutRec("", "", "", NoFwhm)

FirstSubjects(n) == {subject_list[k] : k \in 1..n}

InitRun(subjects) ==
    /\ active = subjects
    /\ running = {}
    /\ finished = {}
    /\ runs = [i \in Expand(subjects) |-> 0]
    /\ sink = {}
    /\ out = NoOut
    /\ dst = ""
    /\ step = Len(substitutions)

Init == InitRun(FirstSubjects(NumSubjects))

\* The datasink is about to store one of the files wired into it.
InitSubst ==
    /\ active = {}
    /\ running = {}
    /\ finished = {}
    /\ runs = << >>
    /\ sink = {}
    /\ out \in AllOutputs
    /\ dst = Destination(out.key, out.subject_id, out.task_name, out.fwhm)
    /\ step = 0

Next == \E i \in DOMAIN runs : Submit(i) \/ Finish(i)

NextSubst == SubstituteStep

Spec == Init /\ [][Next]_vars

\* The scheduler loop keeps running while a job is left to submit or collect.
SpecFair == Init /\ [][Next]_vars /\ WF_vars(Next)

SpecSubst == InitSubst /\ [][NextSubst]_vars

(***************************************************************************)
(* Properties                                                              *)
(***************************************************************************)
Started(i) == i \in running \cup finished

AllFinished == finished = DOMAIN runs /\ finished # {}

Tasks == Range(task_list)

SubstDone == out # NoOut /\ step = Len(substitutions)

\* out_path of the inspection cells, for any subject and task.
out_path(s, t) == "/output/datasink/preproc/sub-" \o s \o "/task-" \o t

HasPrefix(str, pre) == Len(str) >= Len(pre) /\ SubSeq(str, 1, Len(pre)) = pre

DropPrefix(str, pre) == SubSeq(str, Len(pre) + 1, Len(str))

\* C1: every stored file ends up, after the whole substitution list, directly
\* in preproc/sub-<s>/task-<t>/ of /output/datasink, with no sub-directory
\* below it.
C1_StoredUnderSubjectTaskDir ==
    SubstDone =>
        LET dir == experiment_dir \o "/" \o output_dir \o "/preproc/sub-"
                   \o out.subject_id \o "/task-" \o out.task_name \o "/"
        IN  /\ HasPrefix(dst, dir)
            /\ Len(dst) > Len(dir)
            /\ ~ Contains(DropPrefix(dst, dir), "/")

\* A smoothed image of the last subject has been through the whole list and
\* lies directly in its subject/task directory.
C1_Witness ==
    /\ SubstDone
    /\ out.key = "smooth" /\ out.fwhm = 8 /\ out.subject_id = "10"
    /\ HasPrefix(dst, "/output/datasink/preproc/sub-10/task-fingerfootlips/fwhm-8_")

\* The wired inputs the claim lists, for one subject and task.
ListedOutputs(s, t) ==
    { OutRec(k, s, t, NoFwhm) :
        k \in {"par", "mean", "mat_file", "brain", "outlier_files", "plot_files"} }
    \cup { OutRec("smooth", s, t, f) : f \in {4, 8} }

\* C2: when the run has finished with every node instance done, the datasink
\* holds, for every subject and task, the motion parameters, the coregistered
\* mean image, the coreg_bbr matrix, the skull-stripped anatomy, the outlier
\* and plot files and one smoothed image per fwhm value: eight distinct files.
C2_SinkHoldsEverythingWired ==
    AllFinished =>
        \A s \in active, t \in Tasks :
            /\ \A o \in ListedOutputs(s, t) :
                   Substitute(Destination(o.key, o.subject_id, o.task_name, o.fwhm))
                       \in sink
            /\ Cardinality({p \in sink : HasPrefix(p, out_path(s, t) \o "/")}) = 8

\* The run is over and the sink is not empty.
C2_Witness ==
    /\ AllFinished
    /\ "/output/datasink/preproc/sub-01/task-fingerfootlips/plot.sub-01_ses-test_task-fingerfootlips_bold.svg" \in sink
    /\ Cardinality(sink) = 8 * NumSubjects

InstOf(n, s, t) == {i \in DOMAIN runs : i.name = n /\ i.subject_id = s /\ i.task_name = t}

AnyStarted(names, s, t) == \E i \in DOMAIN runs :
    i.name \in names /\ i.subject_id = s /\ i.task_name = t /\ Started(i)

AllDone(names, s, t) == \A i \in DOMAIN runs :
    (i.name \in names /\ i.subject_id = s /\ i.task_name = t) => i \in finished

\* C3 as stated: the four steps run strictly one after the other: mcflirt is
\* done before any coregwf node starts, all of coregwf is done before smooth
\* starts, and smooth is done before art starts.
C3_StepsStrictlyInOrder ==
    \A s \in active, t \in Tasks :
        /\ AnyStarted(CoregNodes, s, t) => AllDone({"mcflirt"}, s, t)
        /\ AnyStarted({"smooth"}, s, t) => AllDone(CoregNodes, s, t)
        /\ AnyStarted({"art"}, s, t) => AllDone({"smooth"}, s, t)

\* C3 (amended): mcflirt is done before coreg_pre, coreg_bbr, applywarp and
\* applywarp_mean start; every coregwf node but applywarp_mean is done before
\* smooth starts; applywarp and mcflirt are done before art starts.
C3_StepsInDataOrder ==
    \A s \in active, t \in Tasks :
        /\ AnyStarted({"coreg_pre", "coreg_bbr", "applywarp", "applywarp_mean"}, s, t)
               => AllDone({"mcflirt"}, s, t)
        /\ AnyStarted({"smooth"}, s, t)
               => AllDone(CoregNodes \ {"applywarp_mean"}, s, t)
        /\ AnyStarted({"art"}, s, t) => AllDone({"applywarp", "mcflirt"}, s, t)

\* Artifact detection and smoothing run while applywarp_mean is not done.
C3_Witness ==
    \E s \in active, t \in Tasks :
        /\ AnyStarted({"art"}, s, t)
        /\ AnyStarted({"smooth"}, s, t)
        /\ ~ AllDone({"smooth"}, s, t)
        /\ ~ AllDone({"applywarp_mean"}, s, t)

OncePerPair == {"selectfiles", "extract", "mcflirt", "slicetimer", "bet_anat",
                "segmentation", "threshold", "coreg_pre", "coreg_bbr",
                "applywarp", "applywarp_mean", "art"}

OncePerWidth == {"smooth", "datasink"}

\* C5: the expansion has one instance of each of the twelve per-pair nodes for
\* each (subject_id, task_name) pair, 10 in total over subject_list x
\* task_list, and one instance of smooth and of datasink for each
\* (subject_id, task_name, fwhm) triple, 20 in total; in a run no instance is
\* submitted twice and at the end each has been executed exactly once.
C5_EachInstanceExactlyOnce ==
    /\ \A n \in OncePerPair : Cardinality({i \in AllInstances : i.name = n}) = 10
    /\ \A n \in OncePerWidth : Cardinality({i \in AllInstances : i.name = n}) = 20
    /\ {i.name : i \in AllInstances} = OncePerPair \cup OncePerWidth
    /\ DOMAIN runs =
           { Inst(n, s, t, NoFwhm) : n \in OncePerPair, s \in active, t \in Tasks }
           \cup { Inst(n, s, t, f) : n \in OncePerWidth, s \in active, t \in Tasks,
                                     f \in Range(fwhm) }
    /\ \A i \in DOMAIN runs : runs[i] = IF Started(i) THEN 1 ELSE 0
    /\ AllFinished => \A i \in DOMAIN runs : runs[i] = 1

\* The run is over and both datasink instances of a subject ran once.
C5_Witness ==
    /\ AllFinished
    /\ \A f \in Range(fwhm) : runs[Inst("datasink", "01", "fingerfootlips", f)] = 1
    /\ runs[Inst("art", "01", "fingerfootlips", NoFwhm)] = 1

\* C6: the names the inspection cells read.
InspectedFile(o) ==
    LET ds == "sub-" \o o.subject_id \o "_ses-test_task-" \o o.task_name \o "_bold"
    IN  CASE o.key = "smooth" -> "fwhm-" \o ToString(o.fwhm) \o "_s" \o ds \o ".nii"
          [] o.key = "par" -> ds \o ".par"
          [] o.key = "mean" -> ds \o "_mean.nii.gz"
          [] o.key = "outlier_files" -> "art." \o ds \o "_outliers.txt"
          [] o.key = "plot_files" -> "plot." \o ds \o ".svg"

\* C6: after the whole list, the smoothed image, the motion parameters, the
\* mean image, the outlier file and the plot carry exactly the file names the
\* inspection cells open under out_path.
C6_InspectedNames ==
    (SubstDone /\ out.key \in {"smooth", "par", "mean", "outlier_files", "plot_files"})
        => dst = out_path(out.subject_id, out.task_name) \o "/" \o InspectedFile(out)

\* The first inspected smoothed image has got its final name.
C6_Witness ==
    /\ SubstDone
    /\ out = OutRec("smooth", "01", "fingerfootlips", 4)
    /\ dst = "/output/datasink/preproc/sub-01/task-fingerfootlips/fwhm-4_ssub-01_ses-test_task-fingerfootlips_bold.nii"

\* The connections the claim lists, as (from, to) pairs.
ListedConnections ==
    { <<"selectfiles", "extract">>, <<"extract", "mcflirt">>,
      <<"mcflirt", "slicetimer">>,
      <<"mcflirt", "coreg_pre">>, <<"bet_anat", "coreg_pre">>,
      <<"mcflirt", "coreg_bbr">>, <<"coreg_pre", "coreg_bbr">>,
      <<"threshold", "coreg_bbr">>,
      <<"slicetimer", "applywarp">>, <<"coreg_bbr", "applywarp">>,
      <<"bet_anat", "applywarp">>,
      <<"applywarp", "smooth">>,
      <<"applywarp", "art">>, <<"mcflirt", "art">>,
      <<"mcflirt", "datasink">>, <<"smooth", "datasink">>,
      <<"applywarp_mean", "datasink">>, <<"coreg_bbr", "datasink">>,
      <<"bet_anat", "datasink">>, <<"art", "datasink">> }

\* C7: a node instance that has started has every node it is connected from
\* finished for the same subject (and the same width, where both have one).
C7_StartsAfterItsInputs ==
    \A i \in DOMAIN runs : Started(i) =>
        \A e \in ListedConnections : e[2] = i.name =>
            /\ InstOf(e[1], i.subject_id, i.task_name) # {}
            /\ \A j \in InstOf(e[1], i.subject_id, i.task_name) :
                   j.fwhm \in {NoFwhm, i.fwhm} => j \in finished

\* A datasink instance has started, its smooth instance being done.
C7_Witness ==
    /\ Inst("datasink", "01", "fingerfootlips", 8) \in running
    /\ Inst("smooth", "01", "fingerfootlips", 8) \in finished

\* C8: the flat graph has no cycle, and under a fair scheduler every node
\* instance, the datasink instances included, eventually has finished.
C8_EventuallyAllFinished ==
    /\ \A n \in FlatNodes : n \notin Descendants(n)
    /\ <>(/\ AllFinished
          /\ \A s \in active, t \in Tasks, f \in Range(fwhm) :
                 Inst("datasink", s, t, f) \in finished)

\* Every instance of the run has finished.
C8_Witness ==
    /\ AllFinished
    /\ Cardinality(finished) = 16 * NumSubjects

Patterns == {"_subject_id_", "_task_name_", "_fwhm_", "_roi", "_mcf", "_st",
             "_flirt", ".nii_mean_reg", ".nii.par"}

\* The part of a stored file's name that comes from the dataset.
DatasetPart(o) ==
    IF o.key = "brain" THEN "sub-" \o o.subject_id \o "_t1w_preproc"
    ELSE "sub-" \o o.subject_id \o "_ses-test_task-" \o o.task_name \o "_bold"

\* C9: after the whole list the path holds none of the substituted patterns
\* and no directory 'fwhm-<f>/', a second pass over the list changes nothing,
\* and no rule ever alters the dataset part of the file name.
C9_SubstitutionIsClean ==
    /\ out # NoOut => Contains(dst, DatasetPart(out))
    /\ SubstDone =>
           /\ \A pat \in Patterns : ~ Contains(dst, pat)
           /\ \A f \in {4, 8} : ~ Contains(dst, "fwhm-" \o ToString(f) \o "/")
           /\ Substitute(dst) = dst

\* A mean image, whose name meets five of the rules, is through the list.
C9_Witness ==
    /\ SubstDone
    /\ out.key = "mean"
    /\ dst = "/output/datasink/preproc/sub-02/task-fingerfootlips/sub-02_ses-test_task-fingerfootlips_bold_mean.nii.gz"

====
